---- MODULE Spec2Model ----
(***************************************************************************)
(* Model of the generic Matrix<T> container of rust-2048                   *)
(* (src/src/matrix/mod.rs, src/src/matrix/macros.rs) with T an integer     *)
(* type: the flat row-major buffer, indexed access, transpose, the         *)
(* Row / Col / Diag / MatrixIterator views and their materialization.      *)
(*                                                                         *)
(* Indices are zero-based as in the source; a TLA+ sequence is one-based,  *)
(* so the element at Vec index k is data[k + 1].                           *)
(* A panic ends the program: no action is enabled once status = "panic".   *)
(* usize arithmetic does not overflow at the explored shapes.              *)
(***************************************************************************)
EXTENDS Integers, Sequences, FiniteSets, TLC

\* Bounds of the explored inputs
MaxRows == 2
MaxCols == 2

\* T::default() for an integer T
Default == 0

\* T is generic: the operations copy and default elements and never inspect
\* them, so a cell needs only the default and one value distinct from it
Vals == {Default, Default + 1}
\* Index arguments include the first out-of-range index of the largest shape
RowIdx == 0..MaxRows
ColIdx == 0..MaxCols
InnerVecs == UNION {[1..n -> Vals] : n \in 0..MaxCols}
NestedVecs == UNION {[1..n -> InnerVecs] : n \in 0..MaxRows}

\* a value no element has
NoVal == Default - 1
NoMatrix == [data |-> <<>>, rows |-> -1, cols |-> -1]
NoView == [kind |-> "none", at |-> 0, cursor |-> 0]
\* a constructor has no receiver: there is no state before it
NoPre == [m |-> NoMatrix, view |-> NoView]
NoArg == [i |-> 0, j |-> 0, val |-> 0, vec |-> <<>>]
None == [some |-> FALSE, val |-> NoVal]
Some(v) == [some |-> TRUE, val |-> v]

VARIABLES
    m,        \* the Matrix the program operates on: [data, rows, cols]
    view,     \* the live view borrowing m: [kind, at, cursor], or NoView
    op,       \* the operation last executed
    arg,      \* its arguments
    status,   \* "ok", or "panic" when it failed fatally
    ret,      \* the Option<&T> / &T it returned (get, next)
    out,      \* the Matrix it returned (transpose, into), or NoMatrix
    pre       \* m and view as they were before the operation

vars == <<m, view, op, arg, status, ret, out, pre>>

----------------------------------------------------------------------------
\* Storage core

\* Matrix::size
size(mat) == <<mat.rows, mat.cols>>

\* Matrix::index
index(mat, i, j) == i * mat.cols + j

\* Matrix::get: Vec indexing panics when the linear index is out of the buffer
get(mat, i, j) ==
    LET k == index(mat, i, j)
    IN  IF k < Len(mat.data)
        THEN [panic |-> FALSE, val |-> mat.data[k + 1]]
        ELSE [panic |-> TRUE, val |-> NoVal]

\* a plausible slip: the stride of the linear index is rows, not cols
SetRowsStride(mat, i, j, val) ==
    LET k == i * mat.rows + j
    IN  IF k < Len(mat.data)
        THEN [panic |-> FALSE, m |-> [mat EXCEPT !.data[k + 1] = val]]
        ELSE [panic |-> TRUE, m |-> mat]

\* Matrix::set
set(mat, i, j, val) ==
    LET k == index(mat, i, j)
    IN  IF k < Len(mat.data)
        THEN [panic |-> FALSE, m |-> [mat EXCEPT !.data[k + 1] = val]]
        ELSE [panic |-> TRUE, m |-> mat]

\* Matrix::new
new(rows, cols) ==
    [data |-> [k \in 1..(rows * cols) |-> Default], rows |-> rows, cols |-> cols]

\* the inner loop of Matrix::transpose: column j, top to bottom
TransposeCol(mat, j) == [i \in 1..mat.rows |-> get(mat, i - 1, j).val]

RECURSIVE TransposeData(_, _)
\* the outer loop of Matrix::transpose, from column j on
TransposeData(mat, j) ==
    IF j >= mat.cols THEN <<>>
    ELSE TransposeCol(mat, j) \o TransposeData(mat, j + 1)

\* a plausible slip: the shape is swapped but the buffer is copied as it is
TransposeShapeOnly(mat) ==
    [data |-> mat.data, rows |-> mat.cols, cols |-> mat.rows]

\* Matrix::transpose
transpose(mat) ==
    [data |-> TransposeData(mat, 0), rows |-> mat.cols, cols |-> mat.rows]

----------------------------------------------------------------------------
\* Construction from a nested Vec

RECURSIVE FoldMaxLen(_, _, _)
\* vec.iter().map(|row| row.len()).fold(0, usize::max)
FoldMaxLen(vec, k, acc) ==
    IF k > Len(vec) THEN acc
    ELSE FoldMaxLen(vec, k + 1, IF Len(vec[k]) > acc THEN Len(vec[k]) ELSE acc)

\* one iteration of the row loop of from: the row, then trailing defaults
FromRow(row, cols) == row \o [k \in 1..(cols - Len(row)) |-> Default]

RECURSIVE FromData(_, _, _)
\* the row loop of from, from row i on
FromData(vec, i, cols) ==
    IF i >= Len(vec) THEN <<>>
    ELSE FromRow(vec[i + 1], cols) \o FromData(vec, i + 1, cols)

\* `cols - len` on usize: a row longer than cols overflows the subtraction
FromOverflows(vec, cols) == \E i \in 1..Len(vec) : cols < Len(vec[i])

\* a plausible slip: the width is taken from the first row only
FromFirstRowWidth(vec) ==
    LET rows == Len(vec)
        cols == IF rows = 0 THEN 0 ELSE Len(vec[1])
    IN  [panic |-> FromOverflows(vec, cols),
         m |-> [data |-> FromData(vec, 0, cols), rows |-> rows, cols |-> cols]]

\* From<Vec<Vec<T>>> for Matrix<T>
from(vec) ==
    LET rows == Len(vec)
        cols == FoldMaxLen(vec, 1, 0)
    IN  [panic |-> FromOverflows(vec, cols),
         m |-> [data |-> FromData(vec, 0, cols), rows |-> rows, cols |-> cols]]

----------------------------------------------------------------------------
\* Views

\* Matrix::row
row(i) == [kind |-> "row", at |-> i, cursor |-> 0]

\* Matrix::col
col(j) == [kind |-> "col", at |-> j, cursor |-> 0]

\* a plausible slip: the squareness check is left out
DiagUnchecked(mat) == FALSE

\* the precondition check of Matrix::diag
DiagPanics(mat) == size(mat)[1] # size(mat)[2]

\* Matrix::diag
diag == [kind |-> "diag", at |-> 0, cursor |-> 0]

\* Matrix::iter
iter == [kind |-> "iter", at |-> 0, cursor |-> 0]

\* the result of a step: panic, or the item and the advanced view
Stepped(g, v) ==
    IF g.panic THEN [panic |-> TRUE, item |-> None, view |-> v]
    ELSE [panic |-> FALSE, item |-> Some(g.val),
          view |-> [v EXCEPT !.cursor = @ + 1]]
AtEnd(v) == [panic |-> FALSE, item |-> None, view |-> v]

\* a plausible slip: the row and column arguments of get are exchanged
RowNextSwapped(mat, v) ==
    IF v.cursor < mat.cols THEN Stepped(get(mat, v.cursor, v.at), v)
    ELSE AtEnd(v)

\* Iterator for Row
RowNext(mat, v) ==
    IF v.cursor < mat.cols THEN Stepped(get(mat, v.at, v.cursor), v)
    ELSE AtEnd(v)

\* Iterator for Col
ColNext(mat, v) ==
    IF v.cursor < mat.rows THEN Stepped(get(mat, v.cursor, v.at), v)
    ELSE AtEnd(v)

\* Iterator for Diag
DiagNext(mat, v) ==
    IF v.cursor < mat.rows THEN Stepped(get(mat, v.cursor, v.cursor), v)
    ELSE AtEnd(v)

\* the order the doc comment of iter describes: by column, then by row
IterNextColumnMajor(mat, v) ==
    IF v.cursor < Len(mat.data)
    THEN [panic |-> FALSE,
          item |-> Some(get(mat, v.cursor % mat.rows, v.cursor \div mat.rows).val),
          view |-> [v EXCEPT !.cursor = @ + 1]]
    ELSE AtEnd(v)

\* Iterator for MatrixIterator: Vec::get on the flat buffer
IterNext(mat, v) ==
    IF v.cursor < Len(mat.data)
    THEN [panic |-> FALSE, item |-> Some(mat.data[v.cursor + 1]),
          view |-> [v EXCEPT !.cursor = @ + 1]]
    ELSE AtEnd(v)

\* next() of whichever view is live
ViewNext(mat, v) ==
    CASE v.kind = "row" -> RowNext(mat, v)
      [] v.kind = "col" -> ColNext(mat, v)
      [] v.kind = "diag" -> DiagNext(mat, v)
      [] OTHER -> IterNext(mat, v)

RECURSIVE Collect(_, _)
\* self.cloned().collect(): next() until None, from the current cursor
Collect(mat, v) ==
    LET s == ViewNext(mat, v)
    IN  IF s.panic THEN [panic |-> TRUE, items |-> <<>>]
        ELSE IF s.item.some
        THEN LET rest == Collect(mat, s.view)
             IN  [panic |-> rest.panic, items |-> <<s.item.val>> \o rest.items]
        ELSE [panic |-> FALSE, items |-> <<>>]

\* a plausible slip: the width is the matrix's, not the collected length
RowIntoFullWidth(mat, v) ==
    LET c == Collect(mat, v)
    IN  [panic |-> c.panic,
         m |-> [data |-> c.items, rows |-> 1, cols |-> mat.cols]]

\* Into<Matrix<T>> for Row
RowInto(mat, v) ==
    LET c == Collect(mat, v)
    IN  [panic |-> c.panic,
         m |-> [data |-> c.items, rows |-> 1, cols |-> Len(c.items)]]

\* a plausible slip: the column is collected from its start
ColIntoWholeCol(mat, v) ==
    LET c == Collect(mat, [v EXCEPT !.cursor = 0])
    IN  [panic |-> c.panic,
         m |-> [data |-> c.items, rows |-> Len(c.items), cols |-> 1]]

\* Into<Matrix<T>> for Col
ColInto(mat, v) ==
    LET c == Collect(mat, v)
    IN  [panic |-> c.panic,
         m |-> [data |-> c.items, rows |-> Len(c.items), cols |-> 1]]

RECURSIVE DiagFill(_, _, _)
\* vec.into_iter().enumerate().for_each(|(i, el)| matrix.set(i, i, el))
DiagFill(acc, vec, i) ==
    IF acc.panic \/ i >= Len(vec) THEN acc
    ELSE DiagFill(set(acc.m, i, i, vec[i + 1]), vec, i + 1)

\* a plausible slip: the diagonal is flattened to a vector like a Row
DiagIntoFlat(mat, v) ==
    LET c == Collect(mat, v)
    IN  [panic |-> c.panic,
         m |-> [data |-> c.items, rows |-> 1, cols |-> Len(c.items)]]

\* Into<Matrix<T>> for Diag
DiagInto(mat, v) ==
    LET c == Collect(mat, v)
        len == Len(c.items)
    IN  IF c.panic THEN [panic |-> TRUE, m |-> NoMatrix]
        ELSE DiagFill([panic |-> FALSE, m |-> new(len, len)], c.items, 0)

\* into() of whichever view is live
ViewInto(mat, v) ==
    CASE v.kind = "row" -> RowInto(mat, v)
      [] v.kind = "col" -> ColInto(mat, v)
      [] OTHER -> DiagInto(mat, v)

----------------------------------------------------------------------------
\* The program: operations a caller applies to the matrix and its views

Running == status = "ok"
\* The program has only allocated its matrix so far.  What a constructor
\* returns does not depend on the state it is called in, so the constructors
\* are enabled in these states only; the reachable states are the same.
Fresh == op = "new"
Here == [m |-> m, view |-> view]
Outcome(panicked) == IF panicked THEN "panic" ELSE "ok"

Init ==
    /\ \E r \in 0..MaxRows, c \in 0..MaxCols : m = new(r, c)
    /\ view = NoView
    /\ op = "new"
    /\ arg = NoArg
    /\ status = "ok"
    /\ ret = None
    /\ out = NoMatrix
    /\ pre = NoPre

\* let m = Matrix::new(r, c)
New(r, c) ==
    /\ Running /\ Fresh
    /\ m' = new(r, c)
    /\ op' = "new" /\ arg' = [NoArg EXCEPT !.i = r, !.j = c]
    /\ status' = "ok" /\ ret' = None /\ out' = NoMatrix /\ pre' = NoPre
    /\ UNCHANGED view

\* let m = matrix![...] / Matrix::from(vec)
From(vec) ==
    /\ Running /\ Fresh
    /\ LET f == from(vec)
       IN  /\ status' = Outcome(f.panic)
           /\ m' = IF f.panic THEN m ELSE f.m
    /\ op' = "from" /\ arg' = [NoArg EXCEPT !.vec = vec]
    /\ ret' = None /\ out' = NoMatrix /\ pre' = NoPre
    /\ UNCHANGED view

\* m.get(i, j): a read through &self that no view observes, so it is
\* explored between views only
Get(i, j) ==
    /\ Running /\ view = NoView
    /\ LET g == get(m, i, j)
       IN  /\ status' = Outcome(g.panic)
           /\ ret' = IF g.panic THEN None ELSE Some(g.val)
    /\ op' = "get" /\ arg' = [NoArg EXCEPT !.i = i, !.j = j]
    /\ out' = NoMatrix /\ pre' = Here
    /\ UNCHANGED <<m, view>>

\* m.set(i, j, val): needs the exclusive borrow, so no view is live
Set(i, j, val) ==
    /\ Running /\ view = NoView
    /\ LET s == set(m, i, j, val)
       IN  /\ status' = Outcome(s.panic)
           /\ m' = s.m
    /\ op' = "set" /\ arg' = [NoArg EXCEPT !.i = i, !.j = j, !.val = val]
    /\ ret' = None /\ out' = NoMatrix /\ pre' = Here
    /\ UNCHANGED view

\* m.transpose(): likewise a read through &self
Transpose ==
    /\ Running /\ view = NoView
    /\ out' = transpose(m)
    /\ op' = "transpose" /\ arg' = NoArg
    /\ status' = "ok" /\ ret' = None /\ pre' = Here
    /\ UNCHANGED <<m, view>>

\* Views are independent read-only cursors over the same shared borrow, so
\* the program is followed with one live view at a time.

\* m.row(i)
MkRow(i) ==
    /\ Running /\ view = NoView
    /\ view' = row(i)
    /\ op' = "row" /\ arg' = [NoArg EXCEPT !.i = i]
    /\ status' = "ok" /\ ret' = None /\ out' = NoMatrix /\ pre' = Here
    /\ UNCHANGED m

\* m.col(j)
MkCol(j) ==
    /\ Running /\ view = NoView
    /\ view' = col(j)
    /\ op' = "col" /\ arg' = [NoArg EXCEPT !.j = j]
    /\ status' = "ok" /\ ret' = None /\ out' = NoMatrix /\ pre' = Here
    /\ UNCHANGED m

\* m.diag()
MkDiag ==
    /\ Running /\ view = NoView
    /\ status' = Outcome(DiagPanics(m))
    /\ view' = IF DiagPanics(m) THEN NoView ELSE diag
    /\ op' = "diag" /\ arg' = NoArg
    /\ ret' = None /\ out' = NoMatrix /\ pre' = Here
    /\ UNCHANGED m

\* m.iter()
MkIter ==
    /\ Running /\ view = NoView
    /\ view' = iter
    /\ op' = "iter" /\ arg' = NoArg
    /\ status' = "ok" /\ ret' = None /\ out' = NoMatrix /\ pre' = Here
    /\ UNCHANGED m

\* view.next()
StepView ==
    /\ Running /\ view # NoView
    /\ LET s == ViewNext(m, view)
       IN  /\ status' = Outcome(s.panic)
           /\ ret' = s.item
           /\ view' = s.view
    /\ op' = "next" /\ arg' = NoArg
    /\ out' = NoMatrix /\ pre' = Here
    /\ UNCHANGED m

\* let x: Matrix<_> = view.into(): consumes the view
Into ==
    /\ Running /\ view.kind \in {"row", "col", "diag"}
    /\ LET r == ViewInto(m, view)
       IN  /\ status' = Outcome(r.panic)
           /\ out' = IF r.panic THEN NoMatrix ELSE r.m
    /\ view' = NoView
    /\ op' = "into" /\ arg' = NoArg
    /\ ret' = None /\ pre' = Here
    /\ UNCHANGED m

\* the view goes out of scope
Drop ==
    /\ Running /\ view # NoView
    /\ view' = NoView
    /\ op' = "drop" /\ arg' = NoArg
    /\ status' = "ok" /\ ret' = None /\ out' = NoMatrix /\ pre' = Here
    /\ UNCHANGED m

\* the caller goes on with the matrix an operation returned
Bind ==
    /\ Running /\ view = NoView /\ out # NoMatrix
    /\ m' = out
    /\ op' = "bind" /\ arg' = NoArg
    /\ status' = "ok" /\ ret' = None /\ out' = NoMatrix /\ pre' = Here
    /\ UNCHANGED view

Next ==
    \/ \E r \in 0..MaxRows, c \in 0..MaxCols : New(r, c)
    \/ \E vec \in NestedVecs : From(vec)
    \/ \E i \in RowIdx, j \in ColIdx : Get(i, j)
    \/ \E i \in RowIdx, j \in ColIdx, val \in Vals : Set(i, j, val)
    \/ Transpose
    \/ \E i \in RowIdx : MkRow(i)
    \/ \E j \in ColIdx : MkCol(j)
    \/ MkDiag
    \/ MkIter
    \/ StepView
    \/ Into
    \/ Drop
    \/ Bind

Spec == Init /\ [][Next]_vars

----------------------------------------------------------------------------
\* Properties

\* the cells of a matrix of shape (rows, cols)
RowsOf(mat) == 0..(mat.rows - 1)
ColsOf(mat) == 0..(mat.cols - 1)
Returns(v) == [panic |-> FALSE, val |-> v]

\* C1: get(i, j) and set(i, j, v) with i >= rows or j >= cols fail fatally:
\* get returns no element, set changes no cell, and an index with
\* j >= cols is never wrapped onto the cell of a later row.
C1_OutOfBoundsFails ==
    (op \in {"get", "set"} /\ (arg.i >= pre.m.rows \/ arg.j >= pre.m.cols))
        => (status = "panic" /\ ret = None /\ m = pre.m)

\* C2: after set(i, j, v) with i < rows and j < cols, get(i, j) returns v,
\* every other cell holds the value it held before, and rows and cols are
\* unchanged; a valid set never fails.
C2_SetThenGet ==
    (op = "set" /\ arg.i < pre.m.rows /\ arg.j < pre.m.cols)
        => /\ status = "ok"
           /\ get(m, arg.i, arg.j) = Returns(arg.val)
           /\ \A i \in RowsOf(m), j \in ColsOf(m) :
                  <<i, j>> # <<arg.i, arg.j>> => get(m, i, j) = get(pre.m, i, j)
           /\ m.rows = pre.m.rows
           /\ m.cols = pre.m.cols

\* a set of cell (1, 1) of a 2x2 matrix that an earlier set or from filled
C2_Witness ==
    /\ op = "set" /\ status = "ok"
    /\ m.rows = 2 /\ m.cols = 2
    /\ arg.i = 1 /\ arg.j = 1 /\ arg.val = 1
    /\ get(pre.m, 1, 1).val = 0
    /\ get(m, 0, 1).val = 1 /\ get(m, 1, 0).val = 0

\* C3: every matrix the operations produce has data.len() = rows * cols,
\* and set never changes rows or cols.
C3_ShapeInvariant ==
    /\ Len(m.data) = m.rows * m.cols
    /\ out # NoMatrix => Len(out.data) = out.rows * out.cols
    /\ op = "set" => (m.rows = pre.m.rows /\ m.cols = pre.m.cols)

\* the program goes on with the 1x1 matrix a stepped view of a 2x2 matrix
\* materialized to
C3_Witness ==
    /\ op = "bind"
    /\ pre.m.rows = 2 /\ pre.m.cols = 2
    /\ m.rows = 1 /\ m.cols = 1 /\ Len(m.data) = 1

\* C4: from(nested) never fails and yields rows = number of inner
\* sequences, cols = the maximum inner length (0 if there are none), cell
\* (i, j) = nested[i][j] when j < len(nested[i]) and the default otherwise.
C4_FromTotal ==
    op = "from" =>
        LET vec == arg.vec
        IN  /\ status = "ok"
            /\ m.rows = Len(vec)
            /\ \A i \in 1..Len(vec) : Len(vec[i]) <= m.cols
            /\ IF vec = <<>> THEN m.cols = 0
               ELSE \E i \in 1..Len(vec) : Len(vec[i]) = m.cols
            /\ Len(m.data) = m.rows * m.cols
            /\ \A i \in RowsOf(m), j \in ColsOf(m) :
                   get(m, i, j) = Returns(IF j < Len(vec[i + 1])
                                          THEN vec[i + 1][j + 1]
                                          ELSE Default)

\* a ragged input whose second row is the longer one
C4_Witness ==
    /\ op = "from" /\ status = "ok"
    /\ Len(arg.vec) = 2
    /\ Len(arg.vec[1]) = 1 /\ Len(arg.vec[2]) = 2
    /\ arg.vec[1][1] = 1 /\ arg.vec[2][2] = 1
    /\ m.cols = 2

\* C5: transpose() returns a matrix of shape (cols, rows) whose element at
\* (j, i) is the source's element at (i, j), leaves the source unmodified,
\* and transposing the result gives the source back.
C5_Transpose ==
    op = "transpose" =>
        /\ status = "ok"
        /\ out.rows = m.cols /\ out.cols = m.rows
        /\ Len(out.data) = out.rows * out.cols
        /\ \A i \in RowsOf(m), j \in ColsOf(m) :
               /\ ~get(out, j, i).panic
               /\ get(out, j, i) = get(m, i, j)
        /\ m = pre.m
        /\ transpose(out) = m

\* the transpose of a 2x2 matrix that is not symmetric
C5_Witness ==
    /\ op = "transpose" /\ status = "ok"
    /\ m.rows = 2 /\ m.cols = 2
    /\ get(m, 0, 1).val # get(m, 1, 0).val

\* what materializing the row view `v` of `mat` gave when it gave `res`:
\* a 1 x (cols - start) matrix holding cells (row, start)..(row, cols - 1)
IsRowFrom(res, mat, v, start) ==
    /\ res.rows = 1 /\ res.cols = mat.cols - start
    /\ Len(res.data) = mat.cols - start
    /\ \A j \in start..(mat.cols - 1) :
           /\ ~get(mat, v.at, j).panic
           /\ get(res, 0, j - start) = get(mat, v.at, j)

\* a (rows - start) x 1 matrix holding cells (start, col)..(rows - 1, col)
IsColFrom(res, mat, v, start) ==
    /\ res.rows = mat.rows - start /\ res.cols = 1
    /\ Len(res.data) = mat.rows - start
    /\ \A i \in start..(mat.rows - 1) :
           /\ ~get(mat, i, v.at).panic
           /\ get(res, i - start, 0) = get(mat, i, v.at)

\* an (n - start) x (n - start) matrix whose diagonal holds cells
\* (start, start)..(n - 1, n - 1) and whose other cells hold the default
IsDiagFrom(res, mat, start) ==
    /\ res.rows = mat.rows - start /\ res.cols = mat.rows - start
    /\ Len(res.data) = res.rows * res.cols
    /\ \A a \in RowsOf(res), b \in ColsOf(res) :
           get(res, a, b) = IF a = b THEN get(mat, a + start, a + start)
                            ELSE Returns(Default)

\* C6 as stated: materializing any Row view with row < rows yields a 1 x c
\* matrix equal to [get(row, 0), ..., get(row, c - 1)].
C6_AnyRowView ==
    (op = "into" /\ pre.view.kind = "row" /\ pre.view.at < m.rows)
        => (status = "ok" /\ IsRowFrom(out, m, pre.view, 0))

\* C6 amended: materializing a Row view with row < rows that has not been
\* stepped yields a 1 x c matrix equal to [get(row, 0), ..., get(row, c - 1)].
C6_FreshRowView ==
    (op = "into" /\ pre.view.kind = "row" /\ pre.view.at < m.rows
        /\ pre.view.cursor = 0)
        => (status = "ok" /\ IsRowFrom(out, m, pre.view, 0))

\* row 1 of a 2x2 matrix whose row 1 differs from its column 1, unstepped
C6_Witness ==
    /\ op = "into" /\ status = "ok"
    /\ pre.view = row(1)
    /\ m.rows = 2 /\ m.cols = 2
    /\ get(m, 1, 0).val # get(m, 0, 1).val
    /\ out.rows = 1 /\ out.cols = 2

\* C7 as stated: materializing any Diag view of an n x n matrix yields an
\* n x n matrix with the original diagonal and defaults elsewhere.
C7_AnyDiagView ==
    (op = "into" /\ pre.view.kind = "diag" /\ m.rows = m.cols)
        => (status = "ok" /\ IsDiagFrom(out, m, 0))

\* C7 amended: materializing a Diag view of an n x n matrix that has not
\* been stepped yields an n x n matrix with the original diagonal and
\* defaults elsewhere.
C7_FreshDiagView ==
    (op = "into" /\ pre.view.kind = "diag" /\ m.rows = m.cols
        /\ pre.view.cursor = 0)
        => (status = "ok" /\ IsDiagFrom(out, m, 0))

\* the diagonal of a 2x2 matrix with no default cell, unstepped
C7_Witness ==
    /\ op = "into" /\ status = "ok"
    /\ pre.view = diag
    /\ m.rows = 2 /\ m.cols = 2
    /\ \A i \in RowsOf(m), j \in ColsOf(m) : get(m, i, j).val # Default
    /\ out.rows = 2 /\ out.cols = 2
    /\ get(out, 0, 1).val = Default

\* C8: diag() on a matrix with rows # cols fails fatally at construction
\* and returns no view; on a matrix with rows = cols it returns a view
\* with cursor 0.
C8_DiagConstruction ==
    op = "diag" =>
        IF pre.m.rows # pre.m.cols
        THEN status = "panic" /\ view = NoView
        ELSE status = "ok" /\ view.kind = "diag" /\ view.cursor = 0

\* diag() called on a 1x2 matrix
C8_Witness ==
    /\ op = "diag" /\ status = "panic"
    /\ pre.m.rows = 1 /\ pre.m.cols = 2

\* C9: the k-th step of the iterator of an m x n matrix returns cell
\* (k div n, k mod n) for k < m * n; every later step returns the end
\* signal and leaves the cursor unchanged; so exactly m * n elements come.
C9_IterRowMajor ==
    /\ view.kind = "iter" => view.cursor <= m.rows * m.cols
    /\ (op = "next" /\ pre.view.kind = "iter") =>
           LET k == pre.view.cursor
               n == m.cols
           IN  /\ status = "ok"
               /\ IF k < m.rows * m.cols
                  THEN /\ ~get(m, k \div n, k % n).panic
                       /\ ret = Some(get(m, k \div n, k % n).val)
                       /\ view.cursor = k + 1
                  ELSE /\ ret = None
                       /\ view = pre.view

\* the second step over a 2x2 matrix whose cells (0, 1) and (1, 0) differ
C9_Witness ==
    /\ op = "next" /\ pre.view.kind = "iter" /\ pre.view.cursor = 1
    /\ m.rows = 2 /\ m.cols = 2
    /\ get(m, 0, 1).val # get(m, 1, 0).val
    /\ ret.some

\* the view's index is one the matrix has
ValidView(mat, v) ==
    CASE v.kind = "row" -> v.at < mat.rows
      [] v.kind = "col" -> v.at < mat.cols
      [] OTHER -> TRUE

\* C10: materialization consumes a view from its cursor: a Row stepped k
\* times gives 1 x (cols - k) with cells (row, k)..(row, cols - 1), a Col
\* gives (rows - k) x 1 with cells (k, col)..(rows - 1, col), a Diag of an
\* n x n matrix gives (n - k) x (n - k) with diagonal (k, k)..(n - 1, n - 1).
\* A view of an existing row or column never fails to materialize.
C10_IntoFromCursor ==
    op = "into" =>
        LET v == pre.view
            k == pre.view.cursor
        IN  /\ ValidView(m, v) => status = "ok"
            /\ status = "ok" =>
                   CASE v.kind = "row" -> k <= m.cols /\ IsRowFrom(out, m, v, k)
                     [] v.kind = "col" -> k <= m.rows /\ IsColFrom(out, m, v, k)
                     [] OTHER -> k <= m.rows /\ IsDiagFrom(out, m, k)

\* column 1 of a 2x2 matrix, materialized after one step
C10_Witness ==
    /\ op = "into" /\ status = "ok"
    /\ pre.view.kind = "col" /\ pre.view.at = 1 /\ pre.view.cursor = 1
    /\ m.rows = 2 /\ m.cols = 2
    /\ get(m, 0, 1).val # get(m, 1, 1).val
    /\ out.rows = 1

====
